---- MODULE Spec2Model ----
(***************************************************************************)
(* Model of gamepad.py (class Gamepad): the mode-arbitrated input router   *)
(* and the cursor integrator.                                              *)
(*                                                                         *)
(* The object's fields are the variables.  The joystick handler            *)
(* _joystick_cb is modelled statement by statement (pc), because it        *)
(* updates the shared fields cur_x and cur_y in four separate writes; the  *)
(* button handlers have a single effect and are one step each.  A call of  *)
(* a user callback is a step of its own (pc = "in_callback"): the callback *)
(* returns, raises, or never comes back.  What an event did to the outside *)
(* world (callbacks invoked, lines printed, display operations) is         *)
(* recorded in calls, out and display, and the event itself in ev.         *)
(***************************************************************************)
EXTENDS Integers, Sequences, FiniteSets, TLC

VARIABLES
    cur_x,          \* self.cur_x
    cur_y,          \* self.cur_y
    joystick_cb,    \* self.joystick_cb   (None or a callable)
    joystick_mode,  \* self.joystick_mode (format preference)
    x_rate_lut,     \* self.x_rate_lut
    y_rate_lut,     \* self.y_rate_lut
    button_cb,      \* self.button_cb     (key -> None or a callable)
    game_state,     \* self.game_state
    pc,             \* position inside the running handler ("idle": none running)
    val,            \* the local val of the running _joystick_cb (<<>> when idle)
    ev,             \* the last event delivered
    pre,            \* <<cur_x, cur_y>> when the last event was delivered
    calls,          \* external callbacks invoked by the last event, in order
    out,            \* lines printed by the last event, in order
    nev,            \* number of events delivered so far
    result,         \* how the callback invoked by the last event ended
    display         \* operations the last event issued to the display, in order

vars == <<cur_x, cur_y, joystick_cb, joystick_mode, x_rate_lut, y_rate_lut,
          button_cb, game_state, pc, val, ev, pre, calls, out, nev, result,
          display>>

fields == <<cur_x, cur_y, joystick_cb, joystick_mode, x_rate_lut, y_rate_lut,
            button_cb, game_state>>

----------------------------------------------------------------------------
(* Program constants                                                       *)

DISPLAY_HEIGHT_PIXELS == 128
DISPLAY_WIDTH_PIXELS == 128

BUTTON_A_PIN == 2
BUTTON_B_PIN == 3
BUTTON_JOY_PIN == 0
BUTTON_O_PIN == 1
BUTTON_L_SHOULDER_PIN == 2
BUTTON_R_SHOULDER_PIN == 2

GAME_STATE_INT_MENU == 0
GAME_STATE_EXT_RUN == 1

JOYSTICK_MODE_RAW == 1
JOYSTICK_MODE_STATE == 2

\* Indices of the two axes in a joystick value (a Python list, 0-based).
X_VALUE_LIST_INDEX == 0
Y_VALUE_LIST_INDEX == 1

\* deadzone=0x2000 handed to the joystick collaborator
JOYSTICK_DEADZONE == 8192

None == "None"

\* Python truthiness of a registry entry: None is false, a callable is true.
Truthy(v) == v # None

XZones == {"SS_CENTERED", "SS_LEFT_MIN", "SS_LEFT_MID", "SS_LEFT_MAX",
           "SS_RIGHT_MIN", "SS_RIGHT_MID", "SS_RIGHT_MAX"}
YZones == {"SS_CENTERED", "SS_UP_MIN", "SS_UP_MID", "SS_UP_MAX",
           "SS_DOWN_MIN", "SS_DOWN_MID", "SS_DOWN_MAX"}

\* Mutant: a centered stick drifts one pixel to the right.
XRateLutCenteredDrifts == [z \in XZones |->
    CASE z = "SS_CENTERED"  -> 1
      [] z = "SS_LEFT_MIN"  -> -1
      [] z = "SS_LEFT_MID"  -> -3
      [] z = "SS_LEFT_MAX"  -> -6
      [] z = "SS_RIGHT_MIN" -> 1
      [] z = "SS_RIGHT_MID" -> 3
      [] z = "SS_RIGHT_MAX" -> 6]

\* Mutant: the horizontal speeds grow linearly, 1, 2, 3.
XRateLutLinear == [z \in XZones |->
    CASE z = "SS_CENTERED"  -> 0
      [] z = "SS_LEFT_MIN"  -> -1
      [] z = "SS_LEFT_MID"  -> -2
      [] z = "SS_LEFT_MAX"  -> -3
      [] z = "SS_RIGHT_MIN" -> 1
      [] z = "SS_RIGHT_MID" -> 2
      [] z = "SS_RIGHT_MAX" -> 3]

\* The tables __init__ builds: pixels per sample, left and up negative.
XRateLut == [z \in XZones |->
    CASE z = "SS_CENTERED"  -> 0
      [] z = "SS_LEFT_MIN"  -> -1
      [] z = "SS_LEFT_MID"  -> -3
      [] z = "SS_LEFT_MAX"  -> -6
      [] z = "SS_RIGHT_MIN" -> 1
      [] z = "SS_RIGHT_MID" -> 3
      [] z = "SS_RIGHT_MAX" -> 6]
\* Mutant: the vertical axis follows the stick, up positive.
YRateLutUpPositive == [z \in YZones |->
    CASE z = "SS_CENTERED" -> 0
      [] z = "SS_UP_MIN"   -> 1
      [] z = "SS_UP_MID"   -> 3
      [] z = "SS_UP_MAX"   -> 6
      [] z = "SS_DOWN_MIN" -> -1
      [] z = "SS_DOWN_MID" -> -3
      [] z = "SS_DOWN_MAX" -> -6]

YRateLut == [z \in YZones |->
    CASE z = "SS_CENTERED" -> 0
      [] z = "SS_UP_MIN"   -> -1
      [] z = "SS_UP_MID"   -> -3
      [] z = "SS_UP_MAX"   -> -6
      [] z = "SS_DOWN_MIN" -> 1
      [] z = "SS_DOWN_MID" -> 3
      [] z = "SS_DOWN_MAX" -> 6]

Buttons == {"A", "B", "J", "O", "LS", "RS"}

\* The pin each button's debounce collaborator is (or would be) built on.
ButtonPin == [b \in Buttons |->
    CASE b = "A"  -> BUTTON_A_PIN
      [] b = "B"  -> BUTTON_B_PIN
      [] b = "J"  -> BUTTON_JOY_PIN
      [] b = "O"  -> BUTTON_O_PIN
      [] b = "LS" -> BUTTON_L_SHOULDER_PIN
      [] b = "RS" -> BUTTON_R_SHOULDER_PIN]

\* The buttons __init__ constructs a DebouncedInput for.  The two shoulder
\* constructions are commented out in the source.
Wired == {"A", "B", "J", "O"}

----------------------------------------------------------------------------
(* Bounds and input sets                                                   *)

\* Events delivered in one run.
MaxEvents == 2

\* Raw two-axis counts the joystick collaborator may deliver (16-bit ADC).
RawCounts == {0, 30000, 45000, 65535}

\* Press durations (ms) reported by the debounce collaborator.
Durations == {0, 120}

\* The pin a direct caller of a button handler passes (no button is on it).
CallPins == {7}

\* The callables the host application may register.
UserCb == [b \in Buttons |-> "on_" \o b]
UserJoystickCb == "on_joystick"

\* Which buttons the host registers a callback for.
RegisteredSets == {{}, Buttons, {"A", "J", "LS"}, {"B", "O", "RS"}}
Registries == {[b \in Buttons |-> IF b \in S THEN UserCb[b] ELSE None] :
               S \in RegisteredSets}

\* Cursor positions the host may have left the cursor at.
StartPositions == {<<0, 0>>, <<0, 10>>, <<64, 64>>, <<127, 127>>, <<124, 3>>}

\* A joystick value is a two-element list; what its elements are (ADC counts
\* or zone constants) is carried with it as unit.
Reading(unit, xy) == [unit |-> unit, xy |-> xy]
\* Cursor positions for the runs that vary the registrations instead.
RoutingStarts == {<<0, 0>>, <<127, 127>>}

RawValues == {Reading("counts", xy) : xy \in RawCounts \X RawCounts}
StateValues == {Reading("zones", xy) : xy \in XZones \X YZones}

----------------------------------------------------------------------------
(* The joystick collaborator's raw-to-zone classification                  *)

\* One axis: counts within the deadzone of the centre are centered; beyond
\* it the deflection falls in the min, mid or max third of the travel.
AxisZone(c, neg, pos) ==
    LET d == c - 32768
        m == IF d < 0 THEN -d ELSE d
        side == IF d < 0 THEN neg ELSE pos
    IN  IF m <= JOYSTICK_DEADZONE THEN "SS_CENTERED"
        ELSE IF m <= 2 * JOYSTICK_DEADZONE THEN side \o "_MIN"
        ELSE IF m <= 3 * JOYSTICK_DEADZONE THEN side \o "_MID"
        ELSE side \o "_MAX"

ConvertRawToState(v) ==
    Reading("zones",
            <<AxisZone(v.xy[X_VALUE_LIST_INDEX + 1], "SS_LEFT", "SS_RIGHT"),
              AxisZone(v.xy[Y_VALUE_LIST_INDEX + 1], "SS_UP", "SS_DOWN")>>)

----------------------------------------------------------------------------
(* Initial states                                                          *)

NoEvent == [kind |-> "none"]

\* The splash image __init__ renders, and the buffers the host may render.
Logo == "logo_data"
Buffers == {Logo, "frame"}

\* Mutant: the panel is not cleared before the image is composed.
ShowOpsNoClear(framebuf) ==
    <<[op |-> "blit", args |-> <<framebuf, 0, 0, 0>>],
      [op |-> "show", args |-> <<>>]>>

\* What show(framebuf) asks of the display: fill(0), blit(framebuf, 0, 0, 0),
\* show().
ShowOps(framebuf) ==
    <<[op |-> "fill", args |-> <<0>>],
      [op |-> "blit", args |-> <<framebuf, 0, 0, 0>>],
      [op |-> "show", args |-> <<>>]>>

\* Mutant: the constructor leaves the router in its internal menu.
ConstructedModeMenu == GAME_STATE_INT_MENU

\* The mode __init__ sets.
ConstructedMode == GAME_STATE_EXT_RUN

\* The state __init__ leaves.
Init ==
    /\ cur_x = 0
    /\ cur_y = 0
    /\ joystick_cb \in {None, UserJoystickCb}
    /\ joystick_mode \in {JOYSTICK_MODE_RAW, JOYSTICK_MODE_STATE}
    /\ x_rate_lut = XRateLut
    /\ y_rate_lut = YRateLut
    /\ button_cb \in Registries
    /\ game_state = ConstructedMode
    /\ pc = "idle"
    /\ val = <<>>
    /\ ev = NoEvent
    /\ pre = <<0, 0>>
    /\ calls = <<>>
    /\ out = <<>>
    /\ nev = 0
    /\ result = "none"
    /\ display = ShowOps(Logo)

----------------------------------------------------------------------------
(* _joystick_cb                                                            *)

\* Mutant: the two mode constants are exchanged in the tests.
JoystickRouteModesSwapped(cb, gs) ==
    IF Truthy(cb) /\ gs = GAME_STATE_INT_MENU THEN "forward"
    ELSE IF gs = GAME_STATE_EXT_RUN THEN "integrate"
    ELSE "drop"

\* Mutant: the menu branch is a plain else.
JoystickRouteNoDrop(cb, gs) ==
    IF Truthy(cb) /\ gs = GAME_STATE_EXT_RUN THEN "forward"
    ELSE "integrate"

\* Mutant: a registered callback is looked at before the mode.
JoystickRouteCallbackFirst(cb, gs) ==
    IF Truthy(cb) THEN "forward"
    ELSE IF gs = GAME_STATE_INT_MENU THEN "integrate"
    ELSE "drop"

\* Which branch of _joystick_cb an event takes: the callback is forwarded to
\* when it is registered and the external game runs; otherwise the menu
\* integrates the sample; otherwise nothing happens.
JoystickRoute(cb, gs) ==
    IF Truthy(cb) /\ gs = GAME_STATE_EXT_RUN THEN "forward"
    ELSE IF gs = GAME_STATE_INT_MENU THEN "integrate"
    ELSE "drop"

\* Mutant: the value is labelled with the format it arrived in.
ForwardArgsArrivalFormat(mode, is_raw, v) ==
    <<IF is_raw THEN JOYSTICK_MODE_RAW ELSE JOYSTICK_MODE_STATE, v>>

\* The arguments of self.joystick_cb(self.joystick_mode, val).
ForwardArgs(mode, is_raw, v) == <<mode, v>>

\* val as the menu branch uses it: raw results are converted to state first.
MenuVal(is_raw, v) == IF is_raw THEN ConvertRawToState(v) ELSE v

\* Mutant: the upper bound is forgotten.
BoundsCheckLowerOnly(c, size) == IF c < 0 THEN 0 ELSE c

\* The bounds check that follows each coordinate's adjustment.
BoundsCheck(c, size) ==
    IF c < 0 THEN 0
    ELSE IF c > size - 1 THEN size - 1
    ELSE c

\* The joystick collaborator calls _joystick_cb(is_raw, v).
JoystickDispatch(is_raw, v) ==
    /\ pc = "idle"
    /\ nev < MaxEvents
    /\ nev' = nev + 1
    /\ ev' = [kind |-> "joystick", is_raw |-> is_raw, val |-> v]
    /\ pre' = <<cur_x, cur_y>>
    /\ out' = <<>>
    /\ LET route == JoystickRoute(joystick_cb, game_state)
       IN  /\ calls' = IF route = "forward"
                       THEN <<[fn |-> joystick_cb,
                               args |-> ForwardArgs(joystick_mode, is_raw, v)]>>
                       ELSE <<>>
           /\ pc' = CASE route = "forward" -> "in_callback"
                       [] route = "integrate" -> "adjust_x"
                       [] OTHER -> "idle"
           /\ result' = IF route = "forward" THEN "pending" ELSE "none"
           /\ val' = IF route = "integrate" THEN MenuVal(is_raw, v) ELSE <<>>
    /\ display' = <<>>
    /\ UNCHANGED fields

\* self.cur_x += self.x_rate_lut[val[X_VALUE_LIST_INDEX]]
AdjustX ==
    /\ pc = "adjust_x"
    /\ cur_x' = cur_x + x_rate_lut[val.xy[X_VALUE_LIST_INDEX + 1]]
    /\ pc' = "check_x"
    /\ UNCHANGED <<cur_y, joystick_cb, joystick_mode, x_rate_lut, y_rate_lut,
                   button_cb, game_state, val, ev, pre, calls, out, nev,
                   result, display>>

BoundsCheckX ==
    /\ pc = "check_x"
    /\ cur_x' = BoundsCheck(cur_x, DISPLAY_WIDTH_PIXELS)
    /\ pc' = "adjust_y"
    /\ UNCHANGED <<cur_y, joystick_cb, joystick_mode, x_rate_lut, y_rate_lut,
                   button_cb, game_state, val, ev, pre, calls, out, nev,
                   result, display>>

\* self.cur_y += self.y_rate_lut[val[Y_VALUE_LIST_INDEX]]
AdjustY ==
    /\ pc = "adjust_y"
    /\ cur_y' = cur_y + y_rate_lut[val.xy[Y_VALUE_LIST_INDEX + 1]]
    /\ pc' = "check_y"
    /\ UNCHANGED <<cur_x, joystick_cb, joystick_mode, x_rate_lut, y_rate_lut,
                   button_cb, game_state, val, ev, pre, calls, out, nev,
                   result, display>>

\* The last statement of _joystick_cb; the handler returns.
BoundsCheckY ==
    /\ pc = "check_y"
    /\ cur_y' = BoundsCheck(cur_y, DISPLAY_HEIGHT_PIXELS)
    /\ pc' = "idle"
    /\ val' = <<>>
    /\ UNCHANGED <<cur_x, joystick_cb, joystick_mode, x_rate_lut, y_rate_lut,
                   button_cb, game_state, ev, pre, calls, out, nev, result,
                   display>>

----------------------------------------------------------------------------
(* Button handlers                                                         *)

\* str(state) of a Python bool.
Str(state) == IF state THEN "True" ELSE "False"

\* Mutant: "or" in place of "and".
ButtonRouteOr(cbv, gs) == Truthy(cbv) \/ gs = GAME_STATE_EXT_RUN

\* The test every button handler makes before calling the user's callback.
ButtonRoute(cbv, gs) == Truthy(cbv) /\ gs = GAME_STATE_EXT_RUN

\* Mutant: a handler that also sends the cursor back to the origin.
ButtonCbResetsCursor(key, label, pin, state, duration) ==
    /\ IF Truthy(button_cb[key]) /\ game_state = GAME_STATE_EXT_RUN
       THEN /\ calls' = <<[fn |-> button_cb[key],
                           args |-> <<pin, state, duration>>]>>
            /\ out' = <<>>
            /\ pc' = "in_callback"
            /\ result' = "pending"
       ELSE /\ calls' = <<>>
            /\ out' = <<label \o Str(state)>>
            /\ pc' = "idle"
            /\ result' = "none"
    /\ cur_x' = 0
    /\ cur_y' = 0
    /\ UNCHANGED <<joystick_cb, joystick_mode, x_rate_lut, y_rate_lut,
                   button_cb, game_state>>

\* The body shared by the six handlers: call the registered callback with the
\* arguments as received, or print label + str(state).  No field is written.
ButtonCb(key, label, pin, state, duration) ==
    /\ IF ButtonRoute(button_cb[key], game_state)
       THEN /\ calls' = <<[fn |-> button_cb[key],
                           args |-> <<pin, state, duration>>]>>
            /\ out' = <<>>
            /\ pc' = "in_callback"
            /\ result' = "pending"
       ELSE /\ calls' = <<>>
            /\ out' = <<label \o Str(state)>>
            /\ pc' = "idle"
            /\ result' = "none"
    /\ UNCHANGED fields

a_button_cb(pin, state, duration) == ButtonCb("A", "A Button:", pin, state, duration)
\* Mutant: the B handler copied from the A handler with the key left as "A".
b_button_cb_key_a(pin, state, duration) == ButtonCb("A", "B Button:", pin, state, duration)
b_button_cb(pin, state, duration) == ButtonCb("B", "B Button:", pin, state, duration)
joy_button_cb(pin, state, duration) == ButtonCb("J", "JOY Button:", pin, state, duration)
\* Mutant: the Option button opens the internal menu.
opt_button_cb_opens_menu(pin, state, duration) ==
    /\ calls' = <<>>
    /\ out' = <<"OPTION Button:" \o Str(state)>>
    /\ pc' = "idle"
    /\ result' = "none"
    /\ game_state' = GAME_STATE_INT_MENU
    /\ UNCHANGED <<cur_x, cur_y, joystick_cb, joystick_mode, x_rate_lut,
                   y_rate_lut, button_cb>>
opt_button_cb(pin, state, duration) == ButtonCb("O", "OPTION Button:", pin, state, duration)
lshldr_button_cb(pin, state, duration) == ButtonCb("LS", "LS Button:", pin, state, duration)
rshldr_button_cb(pin, state, duration) == ButtonCb("RS", "RS Button:", pin, state, duration)

\* The handler method of each button identity.
Handler(b, pin, state, duration) ==
    CASE b = "A"  -> a_button_cb(pin, state, duration)
      [] b = "B"  -> b_button_cb(pin, state, duration)
      [] b = "J"  -> joy_button_cb(pin, state, duration)
      [] b = "O"  -> opt_button_cb(pin, state, duration)
      [] b = "LS" -> lshldr_button_cb(pin, state, duration)
      [] b = "RS" -> rshldr_button_cb(pin, state, duration)

\* A transition of button b settles.  The DebouncedInput that __init__ built
\* on the button's pin calls the button's handler; a button with no
\* DebouncedInput has nobody to report the transition, and nothing runs.
SettledTransition(b, state, duration) ==
    /\ pc = "idle"
    /\ nev < MaxEvents
    /\ nev' = nev + 1
    /\ ev' = [kind |-> "button", via |-> "debounce", id |-> b,
              pin |-> ButtonPin[b], state |-> state, duration |-> duration,
              handled |-> b \in Wired]
    /\ pre' = <<cur_x, cur_y>>
    /\ IF b \in Wired
       THEN Handler(b, ButtonPin[b], state, duration)
       ELSE /\ calls' = <<>> /\ out' = <<>> /\ result' = "none"
            /\ UNCHANGED <<fields, pc>>
    /\ display' = <<>>
    /\ UNCHANGED val

\* The handlers are public methods: any holder of the Gamepad can call one.
HandlerCall(b, pin, state, duration) ==
    /\ pc = "idle"
    /\ nev < MaxEvents
    /\ nev' = nev + 1
    /\ ev' = [kind |-> "button", via |-> "call", id |-> b,
              pin |-> pin, state |-> state, duration |-> duration,
              handled |-> TRUE]
    /\ pre' = <<cur_x, cur_y>>
    /\ Handler(b, pin, state, duration)
    /\ display' = <<>>
    /\ UNCHANGED val

----------------------------------------------------------------------------
(* User callbacks                                                          *)

\* A handler calls the user's callback as its last statement, with no
\* try/except around the call and no timeout.

\* The callback returns, and so does the handler.
CallbackReturns ==
    /\ pc = "in_callback"
    /\ result = "pending"
    /\ pc' = "idle"
    /\ result' = "returned"
    /\ UNCHANGED <<fields, val, ev, pre, calls, out, nev, display>>

\* Mutant: the router catches the exception and prints it.
CallbackRaisesCaught ==
    /\ pc = "in_callback"
    /\ result = "pending"
    /\ pc' = "idle"
    /\ result' = "caught"
    /\ out' = <<"callback failed">>
    /\ UNCHANGED <<fields, val, ev, pre, calls, nev, display>>

\* The callback raises: the exception leaves the handler, unhandled, for the
\* collaborator that called it.
CallbackRaises ==
    /\ pc = "in_callback"
    /\ result = "pending"
    /\ pc' = "idle"
    /\ result' = "raised"
    /\ UNCHANGED <<fields, val, ev, pre, calls, out, nev, display>>

\* Mutant: the router gives up on a callback that does not come back and
\* serves the next event.
CallbackAbandoned ==
    /\ pc = "in_callback"
    /\ result = "pending"
    /\ pc' = "idle"
    /\ result' = "never"
    /\ UNCHANGED <<fields, val, ev, pre, calls, out, nev, display>>

\* The callback is one that never returns: the handler stays in the call.
CallbackNeverReturns ==
    /\ pc = "in_callback"
    /\ result = "pending"
    /\ result' = "never"
    /\ UNCHANGED <<fields, pc, val, ev, pre, calls, out, nev, display>>

----------------------------------------------------------------------------
(* show and the joystick queries                                           *)

show(framebuf) ==
    /\ pc = "idle"
    /\ nev < MaxEvents
    /\ nev' = nev + 1
    /\ ev' = [kind |-> "show", framebuf |-> framebuf]
    /\ pre' = <<cur_x, cur_y>>
    /\ display' = ShowOps(framebuf)
    /\ calls' = <<>>
    /\ out' = <<>>
    /\ result' = "none"
    /\ UNCHANGED <<fields, pc, val>>

\* joystick_state, joystick_raw, joystick_reverse_x and joystick_reverse_y
\* hand the call to the joystick collaborator and return what it returns.
Queries == {"joystick_state", "joystick_raw", "joystick_reverse_x",
            "joystick_reverse_y"}

JoystickQuery(q) ==
    /\ pc = "idle"
    /\ nev < MaxEvents
    /\ nev' = nev + 1
    /\ ev' = [kind |-> "query", name |-> q]
    /\ pre' = <<cur_x, cur_y>>
    /\ display' = <<>>
    /\ calls' = <<>>
    /\ out' = <<>>
    /\ result' = "none"
    /\ UNCHANGED <<fields, pc, val>>

----------------------------------------------------------------------------
(* Construction                                                            *)

\* The host builds the object anew: the arguments are stored, the cursor and
\* the mode get their defaults, the splash image is shown.
__init__(jcb, jmode, bcb) ==
    /\ pc = "idle"
    /\ nev < MaxEvents
    /\ nev' = nev + 1
    /\ cur_x' = 0
    /\ cur_y' = 0
    /\ joystick_cb' = jcb
    /\ joystick_mode' = jmode
    /\ x_rate_lut' = XRateLut
    /\ y_rate_lut' = YRateLut
    /\ button_cb' = bcb
    /\ game_state' = ConstructedMode
    /\ display' = ShowOps(Logo)
    /\ ev' = [kind |-> "init"]
    /\ pre' = <<0, 0>>
    /\ calls' = <<>>
    /\ out' = <<>>
    /\ result' = "none"
    /\ UNCHANGED <<pc, val>>

----------------------------------------------------------------------------
(* Specifications                                                          *)

Joystick ==
    \/ \E v \in RawValues : JoystickDispatch(TRUE, v)
    \/ \E v \in StateValues : JoystickDispatch(FALSE, v)

Settled ==
    \E b \in Buttons, state \in BOOLEAN, duration \in Durations :
        SettledTransition(b, state, duration)

Called ==
    \E b \in Buttons, pin \in CallPins, state \in BOOLEAN, duration \in Durations :
        HandlerCall(b, pin, state, duration)

Shown == \E framebuf \in Buffers : show(framebuf)

Queried == \E q \in Queries : JoystickQuery(q)

Constructed ==
    \E jcb \in {None, UserJoystickCb},
       jmode \in {JOYSTICK_MODE_RAW, JOYSTICK_MODE_STATE},
       bcb \in Registries :
        __init__(jcb, jmode, bcb)

Next ==
    \/ Joystick
    \/ AdjustX
    \/ BoundsCheckX
    \/ AdjustY
    \/ BoundsCheckY
    \/ Settled
    \/ Called
    \/ CallbackReturns
    \/ CallbackRaises
    \/ CallbackNeverReturns
    \/ Shown
    \/ Queried
    \/ Constructed

\* The program as constructed.
Spec == Init /\ [][Next]_vars

\* No method of Gamepad writes game_state: the mode is switched from outside
\* the class, by the host that owns the object.  The two specifications below
\* start from the states the host can have left the object in.

\* The constructor's default for button_cb.
DefaultRegistry == [b \in Buttons |-> None]

\* The cursor anywhere on the display, either mode, the constructor's
\* defaults for the registry and the format preference.
InitCursor ==
    /\ \E p \in StartPositions : cur_x = p[1] /\ cur_y = p[2]
    /\ joystick_cb \in {None, UserJoystickCb}
    /\ joystick_mode = JOYSTICK_MODE_STATE
    /\ x_rate_lut = XRateLut
    /\ y_rate_lut = YRateLut
    /\ button_cb = DefaultRegistry
    /\ game_state \in {GAME_STATE_INT_MENU, GAME_STATE_EXT_RUN}
    /\ pc = "idle"
    /\ val = <<>>
    /\ ev = NoEvent
    /\ pre = <<cur_x, cur_y>>
    /\ calls = <<>>
    /\ out = <<>>
    /\ nev = 0
    /\ result = "none"
    /\ display = ShowOps(Logo)

SpecCursor == InitCursor /\ [][Next]_vars

\* Every registration and format preference the constructor accepts, either
\* mode, the cursor where the constructor puts it or in the far corner.
InitRouting ==
    /\ \E p \in RoutingStarts : cur_x = p[1] /\ cur_y = p[2]
    /\ joystick_cb \in {None, UserJoystickCb}
    /\ joystick_mode \in {JOYSTICK_MODE_RAW, JOYSTICK_MODE_STATE}
    /\ x_rate_lut = XRateLut
    /\ y_rate_lut = YRateLut
    /\ button_cb \in Registries
    /\ game_state \in {GAME_STATE_INT_MENU, GAME_STATE_EXT_RUN}
    /\ pc = "idle"
    /\ val = <<>>
    /\ ev = NoEvent
    /\ pre = <<cur_x, cur_y>>
    /\ calls = <<>>
    /\ out = <<>>
    /\ nev = 0
    /\ result = "none"
    /\ display = ShowOps(Logo)

SpecRouting == InitRouting /\ [][Next]_vars

\* Everything registered, either mode, the cursor in the far corner.
InitLive ==
    /\ cur_x = 127
    /\ cur_y = 127
    /\ joystick_cb = UserJoystickCb
    /\ joystick_mode = JOYSTICK_MODE_STATE
    /\ x_rate_lut = XRateLut
    /\ y_rate_lut = YRateLut
    /\ button_cb = [b \in Buttons |-> UserCb[b]]
    /\ game_state \in {GAME_STATE_INT_MENU, GAME_STATE_EXT_RUN}
    /\ pc = "idle"
    /\ val = <<>>
    /\ ev = NoEvent
    /\ pre = <<cur_x, cur_y>>
    /\ calls = <<>>
    /\ out = <<>>
    /\ nev = 0
    /\ result = "none"
    /\ display = ShowOps(Logo)

\* A handler that has started runs on: _joystick_cb has no loop and waits
\* for nothing.  A callback that has been called comes back, by returning or
\* by raising, or is one that never comes back.  Nothing obliges the
\* collaborators to deliver another event.
HandlerSteps == AdjustX \/ BoundsCheckX \/ AdjustY \/ BoundsCheckY
CallbackEnds == CallbackReturns \/ CallbackRaises \/ CallbackNeverReturns

SpecLive ==
    /\ InitLive
    /\ [][Next]_vars
    /\ WF_vars(HandlerSteps)
    /\ WF_vars(CallbackEnds)

TypeOK ==
    /\ cur_x \in Int /\ cur_y \in Int
    /\ pc \in {"idle", "adjust_x", "check_x", "adjust_y", "check_y",
              "in_callback"}
    /\ result \in {"none", "pending", "returned", "raised", "never"}
    /\ game_state \in {GAME_STATE_INT_MENU, GAME_STATE_EXT_RUN}

----------------------------------------------------------------------------
(* Properties                                                              *)

\* The velocity of a zone as the specification tabulates it: centered 0,
\* min 1, mid 3, max 6; left and up negative, right and down positive.
Velocity(z) ==
    CASE z = "SS_CENTERED" -> 0
      [] z \in {"SS_LEFT_MIN", "SS_UP_MIN"} -> -1
      [] z \in {"SS_LEFT_MID", "SS_UP_MID"} -> -3
      [] z \in {"SS_LEFT_MAX", "SS_UP_MAX"} -> -6
      [] z \in {"SS_RIGHT_MIN", "SS_DOWN_MIN"} -> 1
      [] z \in {"SS_RIGHT_MID", "SS_DOWN_MID"} -> 3
      [] z \in {"SS_RIGHT_MAX", "SS_DOWN_MAX"} -> 6

Clamp(c, lo, hi) == IF c < lo THEN lo ELSE IF c > hi THEN hi ELSE c

\* The zones of the last joystick event (a raw one converted).
EvZones == IF ev.is_raw THEN ConvertRawToState(ev.val).xy ELSE ev.val.xy

\* Where the last joystick event should leave the cursor.
Integrated ==
    <<Clamp(pre[1] + Velocity(EvZones[1]), 0, 127),
      Clamp(pre[2] + Velocity(EvZones[2]), 0, 127)>>

InMenu == game_state = GAME_STATE_INT_MENU
InRun == game_state = GAME_STATE_EXT_RUN
JoystickHandled == ev.kind = "joystick" /\ pc = "idle"

\* C1: in internal-menu mode, after every handled joystick sample of every
\* sequence, from every in-bounds start, 0 <= cur_x < 128 and 0 <= cur_y < 128.
CursorInBounds ==
    (InMenu /\ pc = "idle") =>
        /\ 0 <= cur_x /\ cur_x < 128
        /\ 0 <= cur_y /\ cur_y < 128

\* A second sample in a row has been handled in the menu and the upper
\* bounds check clipped it.
CursorInBoundsWitness ==
    /\ InMenu /\ JoystickHandled /\ nev >= 2
    /\ pre[1] + Velocity(EvZones[1]) > 127
    /\ cur_x = 127

\* C2: in external-run mode with a joystick callback registered, a joystick
\* sample of either format leaves the cursor where it was and is forwarded
\* to the callback, and nothing else happens.
ModeIsolation ==
    (InRun /\ Truthy(joystick_cb) /\ ev.kind = "joystick") =>
        /\ pc \in {"idle", "in_callback"}
        /\ <<cur_x, cur_y>> = pre
        /\ Len(calls) = 1
        /\ calls[1].fn = joystick_cb
        /\ out = <<>>

\* A deflected raw sample was forwarded with the cursor away from the origin.
ModeIsolationWitness ==
    /\ InRun /\ Truthy(joystick_cb) /\ ev.kind = "joystick"
    /\ ev.is_raw /\ ev.val.xy = <<65535, 0>>
    /\ pre = <<64, 64>> /\ <<cur_x, cur_y>> = <<64, 64>>
    /\ Len(calls) = 1

\* C5: in internal-menu mode a handled sample moves the cursor from (x, y) to
\* exactly (clamp(x + vx, 0, 127), clamp(y + vy, 0, 127)), vx and vy being the
\* table velocities of the sample's two zones, a raw sample converted first;
\* with the three scenarios of the specification.
CursorStepExact ==
    (InMenu /\ JoystickHandled) =>
        /\ <<cur_x, cur_y>> = Integrated
        /\ (pre = <<64, 64>> /\ ~ev.is_raw /\ ev.val.xy = <<"SS_RIGHT_MAX", "SS_CENTERED">>)
               => <<cur_x, cur_y>> = <<70, 64>>
        /\ (pre = <<64, 64>> /\ ~ev.is_raw /\ ev.val.xy = <<"SS_CENTERED", "SS_DOWN_MIN">>)
               => <<cur_x, cur_y>> = <<64, 65>>
        /\ (pre = <<0, 10>> /\ ~ev.is_raw /\ ev.val.xy = <<"SS_LEFT_MIN", "SS_CENTERED">>)
               => <<cur_x, cur_y>> = <<0, 10>>

\* Scenario 3 has run: (0,10) + (left-min, centered) stays at (0,10).
CursorStepExactWitness ==
    /\ InMenu /\ JoystickHandled
    /\ pre = <<0, 10>>
    /\ ~ev.is_raw /\ ev.val.xy = <<"SS_LEFT_MIN", "SS_CENTERED">>
    /\ <<cur_x, cur_y>> = <<0, 10>>

\* C10: in internal-menu mode, at every point of the handling of a joystick
\* sample, the cursor fields hold either the position before the sample or
\* the fully clamped position after it.
CursorUpdateAtomic ==
    (InMenu /\ ev.kind = "joystick") => <<cur_x, cur_y>> \in {pre, Integrated}

\* The label each button's diagnostic carries.
ButtonLabel == [b \in Buttons |->
    CASE b = "A"  -> "A Button:"
      [] b = "B"  -> "B Button:"
      [] b = "J"  -> "JOY Button:"
      [] b = "O"  -> "OPTION Button:"
      [] b = "LS" -> "LS Button:"
      [] b = "RS" -> "RS Button:"]

\* The one invocation a routed button event makes: the identity's own
\* callback, with the triple as delivered.
RoutedCall ==
    <<[fn |-> UserCb[ev.id], args |-> <<ev.pin, ev.state, ev.duration>>]>>

SettledEvent == ev.kind = "button" /\ ev.via = "debounce"

ButtonDiagnostic ==
    (ev.kind = "button" /\ ev.handled
       /\ (button_cb[ev.id] = None \/ InMenu)) =>
        /\ calls = <<>>
        /\ out = <<ButtonLabel[ev.id] \o Str(ev.state)>>

\* A release of Option in the menu, with a callback registered for it.
ButtonDiagnosticWitness ==
    /\ ev.kind = "button" /\ ev.handled /\ ev.id = "O" /\ ~ev.state
    /\ InMenu /\ Truthy(button_cb["O"])
    /\ calls = <<>>
    /\ out = <<"OPTION Button:False">>

\* C6: in external-run mode with a joystick callback registered and the
\* classified format requested, the callback receives a raw sample converted
\* to zones.
RawConvertedBeforeForward ==
    (InRun /\ Truthy(joystick_cb) /\ joystick_mode = JOYSTICK_MODE_STATE
       /\ ev.kind = "joystick" /\ ev.is_raw) =>
        /\ Len(calls) = 1
        /\ calls[1].args[2] = ConvertRawToState(ev.val)

\* C7: in external-run mode with a joystick callback registered, a sample that
\* arrives classified causes exactly one invocation, with the format
\* preference first and the value as it arrived second, whichever the
\* preference.
ClassifiedForwardedAsIs ==
    (InRun /\ Truthy(joystick_cb) /\ ev.kind = "joystick" /\ ~ev.is_raw) =>
        calls = <<[fn |-> joystick_cb, args |-> <<joystick_mode, ev.val>>]>>

\* Scenario 5: raw requested, a classified sample arrives and is forwarded.
ClassifiedForwardedAsIsWitness ==
    /\ InRun /\ joystick_cb = UserJoystickCb
    /\ joystick_mode = JOYSTICK_MODE_RAW
    /\ ev.kind = "joystick" /\ ~ev.is_raw
    /\ calls = <<[fn |-> "on_joystick",
                  args |-> <<1, Reading("zones", <<"SS_LEFT_MID", "SS_DOWN_MAX">>)>>]>>

\* C8: in external-run mode with no joystick callback registered, a joystick
\* sample invokes nothing, prints nothing, starts no cursor update and
\* changes no field.
UnroutedSampleDropped ==
    [][(nev' # nev /\ ev'.kind = "joystick"
          /\ InRun /\ joystick_cb = None) =>
            /\ calls' = <<>>
            /\ out' = <<>>
            /\ pc' = "idle"
            /\ UNCHANGED fields]_vars

\* A fully deflected sample has been dropped after an earlier event.
UnroutedSampleDroppedWitness ==
    /\ InRun /\ joystick_cb = None
    /\ ev.kind = "joystick" /\ ~ev.is_raw
    /\ ev.val.xy = <<"SS_RIGHT_MAX", "SS_UP_MAX">>
    /\ nev >= 2 /\ pc = "idle"
    /\ calls = <<>> /\ out = <<>>

\* C9: a button event, whatever the identity, the mode and the registry,
\* changes none of the cursor, the mode, the registry and the format
\* preference.
ButtonsLeaveRouterState ==
    [][(nev' # nev /\ ev'.kind = "button") =>
            UNCHANGED <<cur_x, cur_y, game_state, button_cb, joystick_mode,
                        joystick_cb>>]_vars

\* Scenario 4: A pressed for 120 ms in external-run mode with on_A
\* registered; on_A got the triple and the cursor is where it was, in the
\* far corner.
ButtonsLeaveRouterStateWitness ==
    /\ SettledEvent /\ ev.id = "A" /\ ev.state /\ ev.duration = 120
    /\ InRun /\ calls = <<[fn |-> "on_A", args |-> <<2, TRUE, 120>>]>>
    /\ pre = <<127, 127>> /\ <<cur_x, cur_y>> = <<127, 127>>

Centered == <<"SS_CENTERED", "SS_CENTERED">>

\* C11: a joystick sample whose two zones are both centered, arriving
\* classified or as raw counts inside the deadzone, leaves the cursor where
\* it was: in either mode, from every in-bounds position, with or without a
\* joystick callback, and at every point of its handling.
CenteredSampleKeepsCursor ==
    (ev.kind = "joystick" /\ EvZones = Centered) => <<cur_x, cur_y>> = pre

\* A centered sample has been integrated in the menu, with a callback
\* registered, and the cursor is still away from the origin.
CenteredSampleKeepsCursorWitness ==
    /\ InMenu /\ JoystickHandled /\ Truthy(joystick_cb)
    /\ ~ev.is_raw /\ ev.val.xy = Centered
    /\ pre = <<124, 3>> /\ <<cur_x, cur_y>> = <<124, 3>>

\* C12: the two velocity tables are total over the seven zones of their
\* axis and hold centered 0, left and up -1, -3, -6, right and down +1, +3,
\* +6, in every state: no event modifies either of them.
RateTablesFixed ==
    /\ DOMAIN x_rate_lut = XZones
    /\ DOMAIN y_rate_lut = YZones
    /\ \A z \in XZones : x_rate_lut[z] = Velocity(z)
    /\ \A z \in YZones : y_rate_lut[z] = Velocity(z)

\* Both tables have been read by a second sample in a row, which moved the
\* cursor on both axes.
RateTablesFixedWitness ==
    /\ InMenu /\ JoystickHandled /\ nev >= 2
    /\ cur_x # pre[1] /\ cur_y # pre[2]
    /\ x_rate_lut["SS_LEFT_MAX"] = -6 /\ y_rate_lut["SS_DOWN_MID"] = 3

\* How a joystick event that has just been delivered is being answered.
Forwarded == Len(calls) = 1 /\ pc = "in_callback"
Integrating == calls = <<>> /\ pc = "adjust_x"
Dropped == calls = <<>> /\ pc = "idle" /\ <<cur_x, cur_y>> = pre

\* C15: the mode is tested with the callback, and the menu next: a joystick
\* event is forwarded exactly when the game runs and a callback is
\* registered, integrated exactly when the menu is up (a registered callback
\* is then never invoked), dropped otherwise, and always exactly one of the
\* three.
JoystickPrecedence ==
    /\ []((InMenu /\ ev.kind = "joystick") => calls = <<>>)
    /\ [][(nev' # nev /\ ev'.kind = "joystick") =>
            /\ Forwarded' <=> (InRun /\ Truthy(joystick_cb))
            /\ Integrating' <=> InMenu
            /\ Dropped' <=> (~InMenu /\ ~(InRun /\ Truthy(joystick_cb)))
            /\ \/ Forwarded' /\ ~Integrating' /\ ~Dropped'
               \/ ~Forwarded' /\ Integrating' /\ ~Dropped'
               \/ ~Forwarded' /\ ~Integrating' /\ Dropped']_vars

\* In the menu, with a callback registered, a sample has moved the cursor
\* and the callback was not invoked.
JoystickPrecedenceWitness ==
    /\ InMenu /\ Truthy(joystick_cb) /\ JoystickHandled
    /\ calls = <<>> /\ <<cur_x, cur_y>> # pre

JustConstructed == ev.kind = "init"

\* C13 as claimed: immediately after __init__, whatever callbacks and format
\* preference were supplied, the mode is external-run and the cursor is at
\* the centre of the display, (64,64).
ConstructedAtCentre ==
    JustConstructed => (InRun /\ <<cur_x, cur_y>> = <<64, 64>>)

\* C13 as amended: immediately after __init__, whatever callbacks and format
\* preference were supplied, the mode is external-run and the cursor is at
\* the top left pixel, (0,0).
ConstructedAtOrigin ==
    JustConstructed => (InRun /\ <<cur_x, cur_y>> = <<0, 0>>)

\* The object has been built with a joystick callback, the raw preference
\* and all six button callbacks, and has shown the splash image.
ConstructedAtOriginWitness ==
    /\ JustConstructed
    /\ joystick_cb = UserJoystickCb /\ joystick_mode = JOYSTICK_MODE_RAW
    /\ \A b \in Buttons : button_cb[b] = UserCb[b]
    /\ display = ShowOps(Logo)
    /\ InRun /\ <<cur_x, cur_y>> = <<0, 0>>

\* C14: every call of show issues exactly three operations to the display,
\* in the order clear (fill(0)), compose (blit of the buffer at the origin),
\* present (show()), and changes neither the cursor nor the mode.
ShowClearsComposesPresents ==
    [][(nev' # nev /\ ev'.kind = "show") =>
            /\ Len(display') = 3
            /\ display'[1] = [op |-> "fill", args |-> <<0>>]
            /\ display'[2].op = "blit"
            /\ display'[2].args = <<ev'.framebuf, 0, 0, 0>>
            /\ display'[3] = [op |-> "show", args |-> <<>>]
            /\ UNCHANGED <<cur_x, cur_y, game_state>>]_vars

\* A frame has been shown in the menu after the cursor had moved.
ShowClearsComposesPresentsWitness ==
    /\ ev.kind = "show" /\ ev.framebuf = "frame"
    /\ InMenu /\ <<cur_x, cur_y>> = <<6, 0>>
    /\ Len(display) = 3 /\ display[2].args[1] = "frame"

MenuSteps == {"adjust_x", "check_x", "adjust_y", "check_y"}

\* The state __init__ leaves, before the first event or after a later
\* construction.
AsConstructed ==
    \/ JustConstructed
    \/ nev = 0 /\ InRun /\ <<cur_x, cur_y>> = <<0, 0>>

\* C16: no operation of the object (joystick handler, button handlers, show,
\* joystick queries, callbacks ending) changes the mode; so from the state
\* __init__ leaves, the mode is external-run in every later state, no step
\* of the menu branch is ever taken, and the cursor stays at its initial
\* value.
ModeNeverLeavesRun ==
    /\ [][ev'.kind # "init" => game_state' = game_state]_vars
    /\ [](AsConstructed =>
            [](InRun /\ pc \notin MenuSteps /\ <<cur_x, cur_y>> = <<0, 0>>))

\* After construction, a fully deflected sample and then a second event have
\* been handled, with no joystick callback to take them, and the cursor has
\* not moved.
ModeNeverLeavesRunWitness ==
    /\ nev >= 2 /\ ev.kind = "joystick" /\ pc = "idle"
    /\ ~ev.is_raw /\ ev.val.xy = <<"SS_RIGHT_MAX", "SS_DOWN_MAX">>
    /\ InRun /\ joystick_cb = None
    /\ <<cur_x, cur_y>> = <<0, 0>>

\* The answer the router owes the event that has just been delivered, from
\* the mode, the registrations and the event alone.
RoutesJoystick ==
    /\ out' = <<>>
    /\ \/ /\ InRun /\ Truthy(joystick_cb)
          /\ Forwarded'
          /\ calls' = <<[fn |-> joystick_cb,
                         args |-> <<joystick_mode, ev'.val>>]>>
       \/ InMenu /\ Integrating'
       \/ InRun /\ ~Truthy(joystick_cb) /\ Dropped'

RoutesButton ==
    IF ~ev'.handled
    THEN calls' = <<>> /\ out' = <<>>
    ELSE IF InRun /\ Truthy(button_cb[ev'.id])
    THEN /\ calls' = <<[fn |-> button_cb[ev'.id],
                        args |-> <<ev'.pin, ev'.state, ev'.duration>>]>>
         /\ out' = <<>>
    ELSE /\ calls' = <<>>
         /\ out' = <<ButtonLabel[ev'.id] \o Str(ev'.state)>>

\* C17: a callback that fails is not caught: the exception leaves the
\* handler for the collaborator that delivered the event, nothing is printed
\* for the event, the cursor, the mode, the registry and the format
\* preference are as they were, and the event delivered next is routed as
\* the mode and the registrations say.
CallbackFailurePropagates ==
    /\ [][(pc = "in_callback" /\ pc' = "idle" /\ result' # "returned") =>
            /\ result' = "raised"
            /\ out' = <<>>
            /\ UNCHANGED <<fields, ev, calls, nev>>]_vars
    /\ [][(result = "raised" /\ nev' # nev) =>
            /\ ev'.kind = "joystick" => RoutesJoystick
            /\ ev'.kind = "button" => RoutesButton]_vars

\* The callback of the B button has raised while the cursor was in the far
\* corner: nothing was printed and the router is ready for the next event.
CallbackFailurePropagatesWitness ==
    /\ result = "raised" /\ pc = "idle" /\ nev < MaxEvents
    /\ SettledEvent /\ ev.id = "B" /\ calls = RoutedCall
    /\ out = <<>>
    /\ InRun /\ <<cur_x, cur_y>> = <<127, 127>> /\ pre = <<127, 127>>

\* C18: events are served one at a time and the router waits for nothing
\* but the callback it has called.  A handler that has started ends, unless
\* the callback it called is one that never returns; and once a callback
\* never returns, nothing happens any more: no event is handled, no callback
\* invoked, no line printed, no cursor update made.
RouterNeverBlocks ==
    /\ [][nev' # nev => pc = "idle"]_vars
    /\ [][result # "never"]_vars
    /\ (pc # "idle") ~> (pc = "idle" \/ result = "never")

\* The joystick callback, called for the first event, never returns, with
\* further events still to be delivered.
RouterNeverBlocksWitness ==
    /\ result = "never" /\ pc = "in_callback"
    /\ ev.kind = "joystick" /\ Len(calls) = 1
    /\ nev < MaxEvents

====
